---- MODULE Spec2Model ----
(***************************************************************************)
(* MT19937 state recovery and prediction (src/main.py).                    *)
(*                                                                         *)
(* A Python int used as a 32-bit word is modelled by the set of positions  *)
(* of its 1 bits (bit 0 is the least significant one): 0 is {}, 0x11 is    *)
(* {0, 4}, 0xFFFFFFFF is 0..31.  Python ints are unbounded, so a word may  *)
(* hold positions above 31 until the code masks it with 0xFFFFFFFF.        *)
(***************************************************************************)
EXTENDS Integers, Sequences, FiniteSets, TLC

\* ------------------------------------------------------------------------
\* Python's int operators on bit sets
\* ------------------------------------------------------------------------
Xor(a, b) == (a \ b) \cup (b \ a)
And(a, b) == a \cap b
Or(a, b) == a \cup b
Shr(a, k) == {b - k : b \in {c \in a : c >= k}}
Shl(a, k) == {b + k : b \in a}
\* (1 << n) - 1
LowOnes(n) == 0 .. (n - 1)

\* the word written as hexadecimal digits, most significant first
HexDigit(d, pos) == {4 * pos + j : j \in {j \in 0..3 : (d \div (2 ^ j)) % 2 = 1}}
Hex(ds) == UNION {HexDigit(ds[i], Len(ds) - i) : i \in 1..Len(ds)}

MASK32 == Hex(<<15, 15, 15, 15, 15, 15, 15, 15>>)

\* ------------------------------------------------------------------------
\* MT19937 predictor utilities (src/main.py:16-47)
\* ------------------------------------------------------------------------
U == 11
S == 7
B == Hex(<<9, 13, 2, 12, 5, 6, 8, 0>>)
T == 15
C == Hex(<<14, 15, 12, 6, 0, 0, 0, 0>>)
L == 18

\* the loop  for i in range(0, 32, shift)  of undo_right_shift_xor, from
\* iteration i on, with x the value built so far
RECURSIVE undo_right_loop(_, _, _, _)
undo_right_loop(y, shift, i, x) ==
    IF i >= 32 THEN x
    ELSE LET part == Shr(y, i)
             mask == IF i + shift <= 32 THEN LowOnes(shift) ELSE LowOnes(32 - i)
             x_part == And(Xor(part, Shr(x, shift)), mask)
         IN undo_right_loop(y, shift, i + shift, Or(x, Shl(x_part, i)))

undo_right_shift_xor(y, shift) == And(undo_right_loop(y, shift, 0, {}), MASK32)

RECURSIVE undo_left_loop(_, _, _, _, _)
undo_left_loop(y, shift, mask, i, x) ==
    IF i >= 32 THEN x
    ELSE LET part_mask == IF i + shift <= 32 THEN LowOnes(shift) ELSE LowOnes(32 - i)
             part == And(Shr(y, i), part_mask)
             prev == And(Shl(x, shift), mask)
             x_part == Xor(part, And(Shr(prev, i), part_mask))
         IN undo_left_loop(y, shift, mask, i + shift, Or(x, Shl(x_part, i)))

undo_left_shift_xor_and(y, shift, mask) ==
    And(undo_left_loop(y, shift, mask, 0, {}), MASK32)

untemper(y) ==
    LET y0 == And(y, MASK32)
        y1 == undo_right_shift_xor(y0, L)
        y2 == undo_left_shift_xor_and(y1, T, C)
        y3 == undo_left_shift_xor_and(y2, S, B)
        y4 == undo_right_shift_xor(y3, U)
    IN And(y4, MASK32)

\* ------------------------------------------------------------------------
\* class MT19937 (src/main.py:49-88)
\* ------------------------------------------------------------------------
N == 624
M == 397
MATRIX_A == Hex(<<9, 9, 0, 8, 11, 0, 13, 15>>)
UPPER_MASK == Hex(<<8, 0, 0, 0, 0, 0, 0, 0>>)
LOWER_MASK == Hex(<<7, 15, 15, 15, 15, 15, 15, 15>>)

temper(y) ==
    LET y1 == Xor(y, Shr(y, U))
        y2 == Xor(y1, And(Shl(y1, S), B))
        y3 == Xor(y2, And(Shl(y2, T), C))
        y4 == Xor(y3, Shr(y3, L))
    IN And(y4, MASK32)

\* the list self.mt is a sequence: self.mt[i] of the code is mt[i + 1]
At(mt, i) == mt[i + 1]

\* the value twist's loop body leaves in self.mt[i], from the three entries it
\* reads: a = mt[i], b = mt[(i + 1) % N], c = mt[(i + M) % N]
twist_word(a, b, c) ==
    LET y == Or(And(a, UPPER_MASK), And(b, LOWER_MASK))
        v == Xor(c, Shr(y, 1))
        w == IF And(y, {0}) # {} THEN Xor(v, MATRIX_A) ELSE v
    IN And(w, MASK32)

\* one iteration of twist's loop on the list mt
twist_step(mt, i) ==
    [mt EXCEPT ![i + 1] = twist_word(At(mt, i), At(mt, (i + 1) % N), At(mt, (i + M) % N))]

\* (mutant) the loop run from the last index down to the first
RECURSIVE twist_loop_downwards(_, _, _)
twist_loop_downwards(mt, lo, hi) ==
    IF hi <= lo THEN mt
    ELSE IF hi = lo + 1 THEN twist_step(mt, lo)
    ELSE LET mid == (lo + hi) \div 2
         IN CHOOSE out \in {twist_loop_downwards(first, lo, mid) :
                                first \in {twist_loop_downwards(mt, mid, hi)}} : TRUE

\* the iterations lo, lo + 1, ..., hi - 1 of twist's loop, in that order: the
\* list after the first half of them is computed (bound to `first`) before
\* the second half runs on it
RECURSIVE twist_loop(_, _, _)
twist_loop(mt, lo, hi) ==
    IF hi <= lo THEN mt
    ELSE IF hi = lo + 1 THEN twist_step(mt, lo)
    ELSE LET mid == (lo + hi) \div 2
         IN CHOOSE out \in {twist_loop(first, mid, hi) :
                                first \in {twist_loop(mt, lo, mid)}} : TRUE

\* (mutant) every entry computed from a copy of the list made before the pass
twist_buffered(self) ==
    [mt |-> [i \in 1..N |->
                twist_word(At(self.mt, i - 1), At(self.mt, i % N), At(self.mt, (i - 1 + M) % N))],
     index |-> 0]

\* an engine object is the record of its fields, [mt, index]
twist(self) == [mt |-> twist_loop(self.mt, 0, N), index |-> 0]

\* MT19937()
MT19937_init == [mt |-> [i \in 1..N |-> {}], index |-> N]

\* (mutant) the values are stored without  & 0xFFFFFFFF
seed_from_state_unmasked(self, state_untempered) ==
    IF Len(state_untempered) # N
    THEN [self |-> self, raised |-> "ValueError"]
    ELSE [self |-> [mt |-> state_untempered, index |-> N], raised |-> "none"]

\* (mutant) only a list that is too short is refused
seed_from_state_at_least(self, state_untempered) ==
    IF Len(state_untempered) < N
    THEN [self |-> self, raised |-> "ValueError"]
    ELSE [self |-> [mt |-> [i \in 1..N |-> And(state_untempered[i], MASK32)],
                    index |-> N],
          raised |-> "none"]

\* (mutant) self.index is left as it was
seed_from_state_keeps_index(self, state_untempered) ==
    IF Len(state_untempered) # N
    THEN [self |-> self, raised |-> "ValueError"]
    ELSE [self |-> [mt |-> [i \in 1..N |-> And(state_untempered[i], MASK32)],
                    index |-> self.index],
          raised |-> "none"]

\* seed_from_state: the engine after the call and the exception it raised
seed_from_state(self, state_untempered) ==
    IF Len(state_untempered) # N
    THEN [self |-> self, raised |-> "ValueError"]
    ELSE [self |-> [mt |-> [i \in 1..N |-> And(state_untempered[i], MASK32)],
                    index |-> N],
          raised |-> "none"]

\* (mutant) the cursor advances by two
next_uint32_skips(self) ==
    LET twisted == self.index >= N
        s1 == IF twisted THEN twist(self) ELSE self
        y == At(s1.mt, s1.index)
    IN [self |-> [mt |-> s1.mt, index |-> s1.index + 2],
        ret |-> temper(y),
        twisted |-> twisted]

\* next_uint32: the engine after the call, the value returned, and whether
\* the call ran twist()
next_uint32(self) ==
    LET twisted == self.index >= N
        s1 == IF twisted THEN twist(self) ELSE self
        y == At(s1.mt, s1.index)
    IN [self |-> [mt |-> s1.mt, index |-> s1.index + 1],
        ret |-> temper(y),
        twisted |-> twisted]

\* ------------------------------------------------------------------------
\* The reference generator: the MT19937 recurrence on raw words,
\*   X[n + N] = X[n + M] XOR (y >> 1) XOR (0x9908B0DF if y is odd),
\*   y = (X[n] AND 0x80000000) OR (X[n + 1] AND 0x7FFFFFFF),
\* kept as the window of its last N raw words, oldest first.
\* ------------------------------------------------------------------------
ref_word(x0, x1, xm) ==
    LET y == (x0 \cap {31}) \cup (x1 \ {31})
        a == IF 0 \in y THEN Hex(<<9, 9, 0, 8, 11, 0, 13, 15>>) ELSE {}
    IN Xor(Xor(xm, {b - 1 : b \in y \ {0}}), a)

ref_step(win) == Append(Tail(win), ref_word(win[1], win[2], win[M + 1]))

\* ------------------------------------------------------------------------
\* Inputs
\* ------------------------------------------------------------------------
NumSeeds == 2
MaxCalls == 1250
MaxReseed == 1
MaxBits == 2
MaxSkip == 2
MaxHistory == 1
MaxTarget == 5
MaxRounds == 6

\* word i of the s-th raw array
Pattern(s, i) ==
    {b \in 0..31 :
        (((i + 3) * (b + 5) * (i + b + s) + s * i + (i \div 97) * (b * b + 1)) % 97) % 3 = 0}

\* (lists are built as tuples: the concatenation lists every element)
RawArray(s) == [i \in 1..N |-> Pattern(s, i - 1)] \o <<>>

ZeroArray == [i \in 1..N |-> {}] \o <<>>

\* a list of N ints that do not all fit in 32 bits
WideArray == [i \in 1..N |-> Pattern(1, i) \cup {32 + (i % 3)}] \o <<>>

\* the lists handed to seed_from_state: the raw arrays, the all-zero array, a
\* wide one, and lists of N - 1, N + 1 and 0 values
InputTable ==
    [j \in 1..(NumSeeds + 5) |->
        IF j <= NumSeeds THEN RawArray(j)
        ELSE IF j = NumSeeds + 1 THEN ZeroArray
        ELSE IF j = NumSeeds + 2 THEN WideArray
        ELSE IF j = NumSeeds + 3 THEN SubSeq(RawArray(1), 1, N - 1)
        ELSE IF j = NumSeeds + 4 THEN Append(RawArray(1), {0, 31})
        ELSE <<>>]

InputIds == DOMAIN InputTable

ZeroId == NumSeeds + 1
WideId == NumSeeds + 2
ShortId == NumSeeds + 3
LongId == NumSeeds + 4

\* the words with at most k bits set
RECURSIVE WordsUpTo(_)
WordsUpTo(k) ==
    IF k = 0 THEN {{}}
    ELSE LET p == WordsUpTo(k - 1) IN p \cup {w \cup {b} : w \in p, b \in 0..31}

TestWords == WordsUpTo(MaxBits)

\* offsets into the reference sequence at which the engine is seeded with the
\* reference generator's current window
Offsets == {1, N - M, N - 1, N + 1}

\* ------------------------------------------------------------------------
\* State
\* ------------------------------------------------------------------------
VARIABLES
    mt, index,      \* the engine (predictor): self.mt, self.index
    op,             \* the last call made on the engine
    raised,         \* the exception the last call raised, or "none"
    ret,            \* the value the last next_uint32 returned
    arg,            \* the list given to the last seed_from_state, while op is
                    \* "seed": an input id, or 0 for a list made at run time
    seeded,         \* a seed_from_state call has succeeded on the engine
    calls,          \* next_uint32 calls since the last successful seed
    twists,         \* twist() runs since the last successful seed
    X, pos,         \* the reference generator's window, and how many steps it
                    \* has made since the window was set
    pc,             \* where the run is
    other, hist,    \* a second engine [mt, index, ret], and the next_uint32
                    \* calls made on it before both engines are seeded
    word, result,   \* the transform's input and the round trip's result
    target_count, outputs, rounds, collected,   \* collect_outputs
    drawn           \* every output the service generator has drawn, in order

engineVars == <<mt, index, op, raised, ret, arg, seeded, calls, twists>>
refVars == <<X, pos>>
otherVars == <<other, hist>>
transformVars == <<word, result>>
collectVars == <<target_count, outputs, rounds, collected, drawn>>

vars == <<engineVars, refVars, pc, otherVars, transformVars, collectVars>>

engine == [mt |-> mt, index |-> index]

\* a freshly constructed engine that no one has called
EngineInit ==
    /\ mt = MT19937_init.mt
    /\ index = MT19937_init.index
    /\ op = "init"
    /\ raised = "none"
    /\ ret = {}
    /\ arg = 0
    /\ seeded = FALSE
    /\ calls = 0
    /\ twists = 0

NoOther == other = <<>> /\ hist = 0
NoTransform == word = {} /\ result = {}
NoCollect ==
    /\ target_count = 0
    /\ outputs = <<>>
    /\ rounds = 0
    /\ collected = <<>>
    /\ drawn = <<>>

\* predictor.seed_from_state(words), words the list with id a; on success the
\* reference generator is set to the window `win`, at offset `at`
SeedWith(a, words, win, at) ==
    \E r \in {seed_from_state(engine, words)} :
       /\ mt' = r.self.mt
       /\ index' = r.self.index
       /\ op' = "seed"
       /\ raised' = r.raised
       /\ ret' = {}
       /\ arg' = a
       /\ IF r.raised = "none"
          THEN /\ seeded' = TRUE
               /\ calls' = 0
               /\ twists' = 0
               /\ X' = win
               /\ pos' = at
          ELSE UNCHANGED <<seeded, calls, twists, X, pos>>

\* predictor.next_uint32(); the reference generator makes its next step
EngineNext ==
    /\ calls < MaxCalls
    /\ \E r \in {next_uint32(engine)} :
          /\ mt' = r.self.mt
          /\ index' = r.self.index
          /\ ret' = r.ret
          /\ twists' = IF r.twisted THEN twists + 1 ELSE twists
    /\ op' = "next"
    /\ raised' = "none"
    /\ calls' = calls + 1
    /\ arg' = 0
    /\ X' = ref_step(X)
    /\ pos' = pos + 1
    /\ UNCHANGED seeded

\* ------------------------------------------------------------------------
\* Spec: one engine, any calls
\* ------------------------------------------------------------------------
Init ==
    /\ EngineInit
    /\ X = MT19937_init.mt
    /\ pos = 0
    /\ pc = "engine"
    /\ NoOther /\ NoTransform /\ NoCollect

\* seed_from_state is called before the first next_uint32, and within
\* MaxReseed calls after the cursor has run through the array
SeedPoint == calls % N <= MaxReseed

\* the reference generator restarts from the list the engine is seeded with
Seed_from_state ==
    /\ SeedPoint
    /\ \E a \in InputIds :
          SeedWith(a, InputTable[a], [i \in 1..N |-> InputTable[a][i] \cap (0..31)], 0)
    /\ UNCHANGED <<pc, otherVars, transformVars, collectVars>>

\* the engine is seeded with the reference generator's window X[k .. k + N - 1]
Seed_from_reference ==
    /\ pos \in Offsets
    /\ calls = pos
    /\ SeedWith(0, X, X, pos)
    /\ UNCHANGED <<pc, otherVars, transformVars, collectVars>>

Next_uint32 ==
    /\ EngineNext
    /\ UNCHANGED <<pc, otherVars, transformVars, collectVars>>

Next == Seed_from_state \/ Seed_from_reference \/ Next_uint32

Spec == Init /\ [][Next]_vars

\* ------------------------------------------------------------------------
\* Claims checked under Spec
\* ------------------------------------------------------------------------

\* C3: seed_from_state raises for every list whose length is not N and then
\* leaves the array and the cursor as they were; for a list of N values it
\* sets array[i] to words[i] mod 2^32 and the cursor to N.
C3_SeedContract ==
    [][op' = "seed" =>
         LET words == IF arg' = 0 THEN X ELSE InputTable[arg']
         IN IF Len(words) # N
            THEN raised' = "ValueError" /\ mt' = mt /\ index' = index
            ELSE /\ raised' = "none"
                 /\ index' = N
                 /\ Len(mt') = N
                 /\ \A i \in 1..N : mt'[i] = words[i] \cap (0..31)]_vars

\* a list of N + 1 values was refused by an engine that is in use
C3_Witness ==
    op = "seed" /\ arg = LongId /\ raised = "ValueError" /\ seeded /\ index = 1

\* C4: next_uint32 on an engine that was never seeded fails with a
\* precondition violation and returns no word.
C4_UnseededFailsFast ==
    (~seeded /\ op = "next") => raised = "PreconditionViolation"

\* C5 (as stated): in a twist pass every new array[i] is computed from the
\* pre-twist values of array[i], array[(i+1) mod N] and array[(i+M) mod N].
C5_PreTwistReads ==
    [][(op' = "next" /\ twists' = twists + 1) =>
         \A i \in 0..(N - 1) :
            At(mt', i) = twist_word(At(mt, i), At(mt, (i + 1) % N), At(mt, (i + M) % N))]_vars

\* C5 (amended): the read of array[i] sees the pre-twist value; the read of
\* array[(i+1) mod N] sees the pre-twist value for i < N - 1 and the rewritten
\* array[0] for i = N - 1; the read of array[(i+M) mod N] sees the pre-twist
\* value for i < N - M and the rewritten array[i - (N - M)] from there on.
C5_InPlaceReads ==
    [][(op' = "next" /\ twists' = twists + 1) =>
         \A i \in 0..(N - 1) :
            At(mt', i) = twist_word(At(mt, i),
                                    IF i + 1 < N THEN At(mt, i + 1) ELSE At(mt', 0),
                                    IF i + M < N THEN At(mt, i + M) ELSE At(mt', i + M - N))]_vars

\* a second twist has just run on an array that is not all zero
C5_Witness == op = "next" /\ twists = 2 /\ index = 1 /\ mt[N] # {} /\ mt[1] # {}

\* C6: after a successful seed the k-th next_uint32 call twists exactly when
\* k mod N = 1: one twist after N calls, two after 2N.
C6_TwistPeriod == seeded => twists = (calls + N - 1) \div N

C6_Witness == seeded /\ calls = 2 * N /\ twists = 2 /\ index = N

\* C9: the array has N entries, each in [0, 2^32), the cursor is in 0..N and
\* every word next_uint32 returns is in [0, 2^32).
C9_StateShape ==
    /\ Len(mt) = N
    /\ \A i \in 1..N : mt[i] \subseteq 0..31
    /\ index \in 0..N
    /\ op = "next" => ret \subseteq 0..31

\* the engine was seeded with ints wider than 32 bits
C9_Witness == op = "seed" /\ arg = WideId /\ raised = "none" /\ index = N

\* C10: seeded with the window X[k .. k + N - 1] of the reference sequence,
\* the n-th next_uint32 call returns temper(X[k + N + n - 1]), which is the
\* newest word of the reference window after n steps.
C10_Alignment == (seeded /\ op = "next") => ret = temper(X[N])

\* seeded at offset N - M, the engine has made N + 1 calls
C10_Witness ==
    /\ seeded /\ op = "next"
    /\ calls = N + 1
    /\ pos = (N - M) + N + 1
    /\ ret # {}

\* ------------------------------------------------------------------------
\* SpecTransform: temper and untemper on a bounded set of words
\* ------------------------------------------------------------------------
InitTransform ==
    /\ EngineInit
    /\ X = <<>>
    /\ pos = 0
    /\ pc = "word"
    /\ NoOther /\ NoCollect
    /\ word \in TestWords
    /\ result = {}

Untemper_of_temper ==
    /\ pc = "word"
    /\ result' = untemper(temper(word))
    /\ pc' = "untemper_of_temper"
    /\ UNCHANGED <<engineVars, refVars, otherVars, word, collectVars>>

Temper_of_untemper ==
    /\ pc = "word"
    /\ result' = temper(untemper(word))
    /\ pc' = "temper_of_untemper"
    /\ UNCHANGED <<engineVars, refVars, otherVars, word, collectVars>>

NextTransform == Untemper_of_temper \/ Temper_of_untemper

SpecTransform == InitTransform /\ [][NextTransform]_vars

\* C1: untemper(temper(x)) = x and temper(untemper(y)) = y for every word.
C1_Bijection == pc \in {"untemper_of_temper", "temper_of_untemper"} => result = word

\* ------------------------------------------------------------------------
\* SpecMain: main() on the outputs of a reference generator
\* ------------------------------------------------------------------------
\* the service's generator holds any raw array and has drawn nothing
InitMain ==
    /\ EngineInit
    /\ X \in {InputTable[a] : a \in 1..ZeroId}
    /\ pos = 0
    /\ pc = "service"
    /\ NoOther /\ NoTransform /\ NoCollect

\* the generator draws a value no one observes
Service_draw ==
    /\ pc = "service"
    /\ pos < MaxSkip
    /\ X' = ref_step(X)
    /\ pos' = pos + 1
    /\ UNCHANGED <<engineVars, pc, otherVars, transformVars, collectVars>>

\* outputs = collect_outputs(624): N consecutive tempered outputs, which are
\* the tempered words of the generator's window once it has drawn them
Main_collect ==
    /\ pc = "service"
    /\ outputs' = [i \in 1..N |-> temper(X[i])]
    /\ pc' = "collected"
    /\ UNCHANGED <<engineVars, refVars, otherVars, transformVars,
                   target_count, rounds, collected, drawn>>

\* state_untempered = [untemper(y) for y in outputs];
\* predictor = MT19937(); predictor.seed_from_state(state_untempered)
Main_reconstruct ==
    /\ pc = "collected"
    /\ SeedWith(0, [i \in 1..Len(outputs) |-> untemper(outputs[i])], X, pos)
    /\ pc' = "predicting"
    /\ outputs' = <<>>
    /\ UNCHANGED <<otherVars, transformVars, target_count, rounds, collected, drawn>>

Predict ==
    /\ pc = "predicting"
    /\ EngineNext
    /\ UNCHANGED <<pc, otherVars, transformVars, collectVars>>

NextMain == Service_draw \/ Main_collect \/ Main_reconstruct \/ Predict

SpecMain == InitMain /\ [][NextMain]_vars

\* C2: the engine seeded with the untempered outputs returns, call after
\* call, what the reference generator produces after the last observed output.
C2_RoundTrip == (pc = "predicting" /\ op = "next") => ret = temper(X[N])

\* ------------------------------------------------------------------------
\* SpecPair: a fresh engine and a used one, seeded from the same list and
\* then called in step
\* ------------------------------------------------------------------------
InitPair ==
    /\ EngineInit
    /\ X = MT19937_init.mt
    /\ pos = 0
    /\ pc = "history"
    /\ other = [mt |-> MT19937_init.mt, index |-> MT19937_init.index, ret |-> {}]
    /\ hist = 0
    /\ NoTransform /\ NoCollect

\* the second engine is seeded and called before the common seed
Other_seed ==
    /\ pc = "history"
    /\ \E a \in InputIds :
          \E r \in {seed_from_state([mt |-> other.mt, index |-> other.index],
                                    InputTable[a])} :
             other' = [mt |-> r.self.mt, index |-> r.self.index, ret |-> other.ret]
    /\ UNCHANGED <<engineVars, refVars, pc, hist, transformVars, collectVars>>

Other_next ==
    /\ pc = "history"
    /\ hist < MaxHistory
    /\ \E r \in {next_uint32([mt |-> other.mt, index |-> other.index])} :
          other' = [mt |-> r.self.mt, index |-> r.self.index, ret |-> r.ret]
    /\ hist' = hist + 1
    /\ UNCHANGED <<engineVars, refVars, pc, transformVars, collectVars>>

\* both engines are given the same list of N values
Seed_both ==
    /\ pc = "history"
    /\ \E a \in 1..WideId :
          /\ SeedWith(a, InputTable[a], [i \in 1..N |-> InputTable[a][i] \cap (0..31)], 0)
          /\ \E r \in {seed_from_state([mt |-> other.mt, index |-> other.index],
                                       InputTable[a])} :
                other' = [mt |-> r.self.mt, index |-> r.self.index, ret |-> {}]
    /\ pc' = "run"
    /\ UNCHANGED <<hist, transformVars, collectVars>>

Next_both ==
    /\ pc = "run"
    /\ EngineNext
    /\ \E r \in {next_uint32([mt |-> other.mt, index |-> other.index])} :
          other' = [mt |-> r.self.mt, index |-> r.self.index, ret |-> r.ret]
    /\ UNCHANGED <<pc, hist, transformVars, collectVars>>

NextPair == Other_seed \/ Other_next \/ Seed_both \/ Next_both

SpecPair == InitPair /\ [][NextPair]_vars

\* C7: two engines seeded from identical arrays return the same value on
\* every call and have the same array and cursor after it.
C7_Determinism ==
    pc = "run" => /\ other.mt = mt
                  /\ other.index = index
                  /\ other.ret = ret

\* the second engine had been called before the common seed, and both have
\* gone through two twists since
C7_Witness == pc = "run" /\ hist > 0 /\ calls = N + 1 /\ twists = 2 /\ ret # {}

\* ------------------------------------------------------------------------
\* SpecCollect: collect_outputs against a service that draws two outputs
\* per connection, lucky first, then exit
\* ------------------------------------------------------------------------
InitCollect ==
    /\ EngineInit
    /\ X \in {InputTable[a] : a \in 1..NumSeeds}
    /\ pos = 0
    /\ pc = "collect"
    /\ NoOther /\ NoTransform
    /\ target_count \in 1..MaxTarget
    /\ outputs = <<>>
    /\ rounds = 0
    /\ collected = <<>>
    /\ drawn = <<>>

\* one pass of the while loop: one_fail_round() on a connection in which the
\* service draws lucky and exit; got_lucky and got_exit say which of the two
\* the regular expressions found in what was received
Round(got_lucky, got_exit) ==
    /\ pc = "collect"
    /\ Len(outputs) < target_count
    /\ rounds < MaxRounds
    /\ \E X1 \in {ref_step(X)} : \E X2 \in {ref_step(X1)} :
          LET lucky_val == temper(X1[N])
              exit_val == temper(X2[N])
              with_lucky == Append(outputs, And(lucky_val, MASK32))
          IN /\ X' = X2
             /\ pos' = pos + 2
             /\ drawn' = drawn \o <<lucky_val, exit_val>>
             /\ outputs' = IF ~got_lucky \/ ~got_exit THEN outputs
                           ELSE IF Len(with_lucky) < target_count
                                THEN Append(with_lucky, And(exit_val, MASK32))
                                ELSE with_lucky
    /\ rounds' = rounds + 1
    /\ UNCHANGED <<engineVars, pc, otherVars, transformVars, target_count, collected>>

\* both values parsed: they are appended
Round_parsed == pc = "collect" /\ Round(TRUE, TRUE)

\* lucky_val is None or exit_val is None: the loop continues
Round_parse_failed ==
    /\ pc = "collect"
    /\ \E got_lucky, got_exit \in BOOLEAN :
          ~(got_lucky /\ got_exit) /\ Round(got_lucky, got_exit)

\* return outputs[:target_count]
Collect_return ==
    /\ pc = "collect"
    /\ Len(outputs) >= target_count
    /\ collected' = SubSeq(outputs, 1, target_count)
    /\ pc' = "done"
    /\ UNCHANGED <<engineVars, refVars, otherVars, transformVars,
                   target_count, outputs, rounds, drawn>>

NextCollect == Round_parsed \/ Round_parse_failed \/ Collect_return

SpecCollect == InitCollect /\ [][NextCollect]_vars

\* C8: collect_outputs returns target_count values that are consecutive
\* outputs of the service generator, in generation order, whatever rounds
\* failed to parse.
C8_GapFree ==
    pc = "done" =>
        /\ Len(collected) = target_count
        /\ \E start \in 0..(Len(drawn) - target_count) :
              \A i \in 1..target_count : collected[i] = drawn[start + i]
====
